---- MODULE Spec2Model ----
(***************************************************************************)
(* Model of jobs_scraper.py: the text utilities, the experience parser     *)
(* and matcher, the two source fetchers, the aggregator, the filter, the   *)
(* formatter, the notifier and main().                                     *)
(*                                                                         *)
(* Text is a sequence of tokens.  A token is one character (a digit, "-",  *)
(* "+", a whitespace character) or one word that the program only ever     *)
(* looks at as a whole ("years", "devops", "/jobs/", ...).  Python's None  *)
(* is NoneY among the year values and NoneStr among the strings.           *)
(***************************************************************************)
EXTENDS Integers, Sequences, FiniteSets, TLC

VARIABLES
    pc,               \* position of the run / of the function under study
    error,            \* the exception that ended the run, "none" if none
    text,             \* argument of parse_experience_text
    parsed,           \* its return value <<min_y, max_y>>
    min_y, max_y,     \* arguments of experience_matches
    expResult,        \* its return value
    jobsIn,           \* argument of filter_jobs
    filtered,         \* its return value
    userSet, passSet, \* GMAIL_USER / GMAIL_APP_PASSWORD are set
    kwIdx,            \* index into KEYWORDS of collect_jobs' loop
    fetcher,          \* the fetcher being called
    failedAt,         \* step of the current call that raised (NoFailure if none)
    results,          \* `results` of the current fetcher call
    fetchErr,         \* the current call went through its except clause
    jobs,             \* `jobs` of collect_jobs
    unique,           \* return value of collect_jobs
    matches,          \* return value of filter_jobs in main
    body,             \* return value of build_email_html in main
    httpGets,         \* number of requests.get calls issued so far
    lastGet,          \* outcome of the latest requests.get
    slept,            \* time.sleep ran since the latest requests.get
    smtpConnections,  \* number of smtplib.SMTP connections opened
    attempts,         \* number of mail submissions started
    emailsSent        \* number of sendmail calls that returned

vars == <<pc, error, text, parsed, min_y, max_y, expResult, jobsIn, filtered,
          userSet, passSet, kwIdx, fetcher, failedAt, results, fetchErr,
          jobs, unique, matches, body, httpGets, lastGet, slept,
          smtpConnections, attempts, emailsSent>>

pureVars == <<text, parsed, min_y, max_y, expResult, jobsIn, filtered>>

runVars == <<userSet, passSet, kwIdx, fetcher, failedAt, results,
             fetchErr, jobs, unique, matches, body, httpGets, lastGet, slept,
             smtpConnections, attempts, emailsSent>>

----------------------------------------------------------------------------
(* Bounds of the model *)

MaxLen == 5        \* longest text given to parse_experience_text
MaxYear == 8       \* largest year bound given to experience_matches
MaxJobs == 3       \* longest list given to filter_jobs
NumKeywords == 1   \* keywords iterated by collect_jobs in the run
MaxAnchors == 2    \* matched anchors per page in the run
MaxBigPage == 27   \* matched anchors per page in the single-call study

(* Program constants *)

MIN_YEARS == 2
MAX_YEARS == 6
AnchorCap == 25

NoneY == -1
NoneStr == <<"<None>">>
NoFailure == -1

----------------------------------------------------------------------------
(* Text utilities *)

Whitespace == {" ", "\n"}

Digits == {"0", "1", "2", "3", "4", "5", "6", "7", "8", "9"}

DigitVal(t) ==
    CASE t = "0" -> 0 [] t = "1" -> 1 [] t = "2" -> 2 [] t = "3" -> 3
      [] t = "4" -> 4 [] t = "5" -> 5 [] t = "6" -> 6 [] t = "7" -> 7
      [] t = "8" -> 8 [] t = "9" -> 9

\* str.lower() on one token
LowerTok(t) ==
    CASE t = "Years" -> "years"
      [] t = "DevOps" -> "devops"
      [] t = "Engineer" -> "engineer"
      [] t = "Cloud" -> "cloud"
      [] t = "Site" -> "site"
      [] t = "Reliability" -> "reliability"
      [] t = "Platform" -> "platform"
      [] t = "Infrastructure" -> "infrastructure"
      [] t = "AWS" -> "aws"
      [] t = "Azure" -> "azure"
      [] t = "Kubernetes" -> "kubernetes"
      [] t = "Remote" -> "remote"
      [] t = "India" -> "india"
      [] t = "SRE" -> "sre"
      [] OTHER -> t

lower(s) == [i \in 1..Len(s) |-> LowerTok(s[i])]

\* str.split(): the maximal runs of non-whitespace tokens
RECURSIVE split(_)
split(s) ==
    IF s = <<>> THEN <<>>
    ELSE IF Head(s) \in Whitespace THEN split(Tail(s))
    ELSE LET rest == split(Tail(s))
         IN IF Len(s) > 1 /\ s[2] \notin Whitespace
            THEN <<(<<Head(s)>> \o Head(rest))>> \o Tail(rest)
            ELSE <<(<<Head(s)>>)>> \o rest

\* sep.join(parts)
RECURSIVE join(_, _)
join(sep, parts) ==
    IF parts = <<>> THEN <<>>
    ELSE IF Len(parts) = 1 THEN Head(parts)
    ELSE Head(parts) \o sep \o join(sep, Tail(parts))

normalize_text(s) ==
    IF s = NoneStr \/ s = <<>> THEN <<>> ELSE join(<<" ">>, split(s))

\* `needle in s` for strings
Contains(s, needle) ==
    \E i \in 0..(Len(s) - Len(needle)) :
        \A k \in 1..Len(needle) : s[i + k] = needle[k]

\* s.startswith("/")
StartsWithSlash(s) == s # <<>> /\ Head(s) \in {"/", "/jobs/"}

----------------------------------------------------------------------------
(* Regular-expression matching for parse_experience_text.                  *)
(* An anchored matcher says whether the pattern matches at a position.     *)

IsDigitAt(s, i) == i >= 1 /\ i <= Len(s) /\ s[i] \in Digits

\* \s* from position i: greedy, returns the first position that is not whitespace
RECURSIVE SkipWs(_, _)
SkipWs(s, i) ==
    IF i <= Len(s) /\ s[i] \in Whitespace THEN SkipWs(s, i + 1) ELSE i

\* years? at position i
YearsAt(s, i) == i >= 1 /\ i <= Len(s) /\ s[i] \in {"year", "years"}

\* int(m.group(k)) for a group of nd digits starting at i
NumAt(s, i, nd) ==
    IF nd = 2 THEN 10 * DigitVal(s[i]) + DigitVal(s[i + 1]) ELSE DigitVal(s[i])

\* (\d{1,2}) at i can take nd digits
DigitsAt(s, i, nd) ==
    IsDigitAt(s, i) /\ (nd = 2 => IsDigitAt(s, i + 1))

\* the tail \s*years? from position i
TailYears(s, i) == YearsAt(s, SkipWs(s, i))

\* (\d{1,2})\s*[-–]\s*(\d{1,2})\s*years? anchored at i with n1, n2 digits
RangeAt(s, i, n1, n2) ==
    /\ DigitsAt(s, i, n1)
    /\ LET d == SkipWs(s, i + n1)
       IN /\ d <= Len(s)
          /\ s[d] \in {"-", "endash"}
          /\ LET j == SkipWs(s, d + 1)
             IN DigitsAt(s, j, n2) /\ TailYears(s, j + n2)

\* groups of the range pattern anchored at i; greedy digits with backtracking
RangeGroups(s, i) ==
    LET second(n1) ==
            LET j == SkipWs(s, SkipWs(s, i + n1) + 1)
            IN IF RangeAt(s, i, n1, 2) THEN <<NumAt(s, i, n1), NumAt(s, j, 2)>>
               ELSE IF RangeAt(s, i, n1, 1) THEN <<NumAt(s, i, n1), NumAt(s, j, 1)>>
               ELSE <<NoneY, NoneY>>
    IN IF second(2) # <<NoneY, NoneY>> THEN second(2) ELSE second(1)

\* (\d{1,2})\s*\+\s*years? anchored at i with n digits
PlusAt(s, i, n) ==
    /\ DigitsAt(s, i, n)
    /\ LET p == SkipWs(s, i + n)
       IN p <= Len(s) /\ s[p] = "+" /\ TailYears(s, p + 1)

\* (\d{1,2})\s*years? anchored at i with n digits
PlainAt(s, i, n) == DigitsAt(s, i, n) /\ TailYears(s, i + n)

\* minimum\s+of\s+(\d{1,2})\s*years? anchored at i with n digits.
\* The token "minimum of" is the text `minimum of` with one blank inside.
MinimumAt(s, i, n) ==
    /\ i <= Len(s)
    /\ s[i] = "minimum of"
    /\ i + 1 <= Len(s)
    /\ s[i + 1] \in Whitespace
    /\ PlainAt(s, SkipWs(s, i + 1), n)

RangeHere(s, i) == \E n1, n2 \in 1..2 : RangeAt(s, i, n1, n2)
PlusHere(s, i) == \E n \in 1..2 : PlusAt(s, i, n)
MinimumHere(s, i) == \E n \in 1..2 : MinimumAt(s, i, n)
PlainHere(s, i) == \E n \in 1..2 : PlainAt(s, i, n)

\* re.search: the leftmost position from i on at which the pattern matches,
\* 0 when it matches nowhere
RECURSIVE SearchRange(_, _)
SearchRange(s, i) ==
    IF i > Len(s) THEN 0 ELSE IF RangeHere(s, i) THEN i ELSE SearchRange(s, i + 1)

RECURSIVE SearchPlus(_, _)
SearchPlus(s, i) ==
    IF i > Len(s) THEN 0 ELSE IF PlusHere(s, i) THEN i ELSE SearchPlus(s, i + 1)

RECURSIVE SearchMinimum(_, _)
SearchMinimum(s, i) ==
    IF i > Len(s) THEN 0 ELSE IF MinimumHere(s, i) THEN i ELSE SearchMinimum(s, i + 1)

RECURSIVE SearchPlain(_, _)
SearchPlain(s, i) ==
    IF i > Len(s) THEN 0 ELSE IF PlainHere(s, i) THEN i ELSE SearchPlain(s, i + 1)

\* number of digits the greedy (\d{1,2}) ends up with in a match at i
PlusDigits(s, i) == IF PlusAt(s, i, 2) THEN 2 ELSE 1
PlainDigits(s, i) == IF PlainAt(s, i, 2) THEN 2 ELSE 1

\* the rules tried with the plain "N years" pattern first
parse_experience_text_PlainFirst(txt) ==
    IF txt = NoneStr \/ txt = <<>> THEN <<NoneY, NoneY>>
    ELSE
      LET s == lower(txt)
          a == SearchRange(s, 1)
          b == SearchPlus(s, 1)
          c == SearchMinimum(s, 1)
          d == SearchPlain(s, 1)
      IN IF d # 0
         THEN LET y == NumAt(s, d, PlainDigits(s, d)) IN <<y, y>>
         ELSE IF a # 0 THEN RangeGroups(s, a)
         ELSE IF b # 0 THEN <<NumAt(s, b, PlusDigits(s, b)), NoneY>>
         ELSE IF c # 0
              THEN LET g == SkipWs(s, c + 1)
                   IN <<NumAt(s, g, PlainDigits(s, g)), NoneY>>
         ELSE <<NoneY, NoneY>>

parse_experience_text(txt) ==
    IF txt = NoneStr \/ txt = <<>> THEN <<NoneY, NoneY>>
    ELSE
      LET s == lower(txt)
          a == SearchRange(s, 1)
          b == SearchPlus(s, 1)
          c == SearchMinimum(s, 1)
          d == SearchPlain(s, 1)
      IN IF a # 0 THEN RangeGroups(s, a)
         ELSE IF b # 0 THEN <<NumAt(s, b, PlusDigits(s, b)), NoneY>>
         ELSE IF c # 0
              THEN LET g == SkipWs(s, c + 1)
                   IN <<NumAt(s, g, PlainDigits(s, g)), NoneY>>
         ELSE IF d # 0
              THEN LET y == NumAt(s, d, PlainDigits(s, d)) IN <<y, y>>
         ELSE <<NoneY, NoneY>>

\* the open-ended case compared with < instead of <=
experience_matches_StrictMin(mn, mx) ==
    IF mn = NoneY /\ mx = NoneY THEN TRUE
    ELSE IF mn # NoneY /\ mx # NoneY THEN ~(mx < MIN_YEARS \/ mn > MAX_YEARS)
    ELSE IF mn # NoneY THEN mn < MAX_YEARS
    ELSE IF mx # NoneY THEN mx >= MIN_YEARS
    ELSE FALSE

experience_matches(mn, mx) ==
    IF mn = NoneY /\ mx = NoneY THEN TRUE
    ELSE IF mn # NoneY /\ mx # NoneY THEN ~(mx < MIN_YEARS \/ mn > MAX_YEARS)
    ELSE IF mn # NoneY THEN mn <= MAX_YEARS
    ELSE IF mx # NoneY THEN mx >= MIN_YEARS
    ELSE FALSE

----------------------------------------------------------------------------
(* Values the variables of one study hold while another study runs *)

PureIdle ==
    /\ text = <<>>
    /\ parsed = <<NoneY, NoneY>>
    /\ min_y = NoneY
    /\ max_y = NoneY
    /\ expResult = FALSE
    /\ jobsIn = <<>>
    /\ filtered = <<>>

RunIdle ==
    /\ userSet = TRUE
    /\ passSet = TRUE
    /\ kwIdx = 1
    /\ fetcher = "indeed"
    /\ failedAt = NoFailure
    /\ results = <<>>
    /\ fetchErr = FALSE
    /\ jobs = <<>>
    /\ unique = <<>>
    /\ matches = <<>>
    /\ body = [kind |-> "unset", rows |-> <<>>]
    /\ httpGets = 0
    /\ lastGet = "none"
    /\ slept = FALSE
    /\ smtpConnections = 0
    /\ attempts = 0
    /\ emailsSent = 0

----------------------------------------------------------------------------
(* experience_matches on every pair of optional year bounds *)

YearVals == {NoneY} \cup (0..MaxYear)

InitExp ==
    /\ pc = "call"
    /\ error = "none"
    /\ min_y \in YearVals
    /\ max_y \in YearVals
    /\ expResult = FALSE
    /\ text = <<>>
    /\ parsed = <<NoneY, NoneY>>
    /\ jobsIn = <<>>
    /\ filtered = <<>>
    /\ RunIdle

CallExperienceMatches ==
    /\ pc = "call"
    /\ expResult' = experience_matches(min_y, max_y)
    /\ pc' = "done"
    /\ UNCHANGED <<error, text, parsed, min_y, max_y, jobsIn, filtered, runVars>>

NextExp == CallExperienceMatches

SpecExp == InitExp /\ [][NextExp]_vars

\* C5: experience_matches(min_y, max_y) is true iff both bounds are unknown,
\* or both are known and not (max_y < MIN_YEARS or min_y > MAX_YEARS), or only
\* min_y is known and min_y <= MAX_YEARS, or only max_y is known and
\* max_y >= MIN_YEARS.
C5_ExperienceWindow ==
    pc = "done" =>
        (expResult <=>
            \/ (min_y = NoneY /\ max_y = NoneY)
            \/ (min_y # NoneY /\ max_y # NoneY
                  /\ ~(max_y < MIN_YEARS \/ min_y > MAX_YEARS))
            \/ (min_y # NoneY /\ max_y = NoneY /\ min_y <= MAX_YEARS)
            \/ (min_y = NoneY /\ max_y # NoneY /\ max_y >= MIN_YEARS))

\* the ranges (1,2) and [2,6] overlap at 2 and the call has answered True
C5_Witness ==
    pc = "done" /\ min_y = 1 /\ max_y = 2 /\ expResult

----------------------------------------------------------------------------
(* parse_experience_text on every short text *)

ParseAlphabet == {"2", "7", "-", "endash", "+", "years", "Years", " ", "minimum of"}

ParseTexts == {NoneStr} \cup UNION {[1..n -> ParseAlphabet] : n \in 0..MaxLen}

InitParse ==
    /\ pc = "call"
    /\ error = "none"
    /\ text \in ParseTexts
    /\ parsed = <<NoneY, NoneY>>
    /\ min_y = NoneY
    /\ max_y = NoneY
    /\ expResult = FALSE
    /\ jobsIn = <<>>
    /\ filtered = <<>>
    /\ RunIdle

CallParseExperienceText ==
    /\ pc = "call"
    /\ parsed' = parse_experience_text(text)
    /\ pc' = "done"
    /\ UNCHANGED <<error, text, min_y, max_y, expResult, jobsIn, filtered, runVars>>

NextParse == CallParseExperienceText

SpecParse == InitParse /\ [][NextParse]_vars

\* What the four patterns mean, stated on the text as given (any case):
\* the occurrences of each pattern, as <<start, N, M>> or <<start, N>>.
YearWord == {"year", "years", "Year", "Years"}

AllWs(s, a, b) == \A k \in a..b : s[k] \in Whitespace

YearsAfter(s, i) ==
    \E y \in i..Len(s) : AllWs(s, i, y - 1) /\ s[y] \in YearWord

OccRange(s) ==
    { <<q[1], NumAt(s, q[1], q[2]), NumAt(s, q[3], q[4])>> :
        q \in { r \in (1..Len(s)) \X (1..2) \X (1..Len(s)) \X (1..2) :
                  /\ DigitsAt(s, r[1], r[2])
                  /\ r[3] > r[1] + r[2]
                  /\ DigitsAt(s, r[3], r[4])
                  /\ \E p \in (r[1] + r[2])..(r[3] - 1) :
                        /\ s[p] \in {"-", "endash"}
                        /\ AllWs(s, r[1] + r[2], p - 1)
                        /\ AllWs(s, p + 1, r[3] - 1)
                  /\ YearsAfter(s, r[3] + r[4]) } }

OccPlus(s) ==
    { <<q[1], NumAt(s, q[1], q[2])>> :
        q \in { r \in (1..Len(s)) \X (1..2) :
                  /\ DigitsAt(s, r[1], r[2])
                  /\ \E p \in (r[1] + r[2])..Len(s) :
                        /\ s[p] = "+"
                        /\ AllWs(s, r[1] + r[2], p - 1)
                        /\ YearsAfter(s, p + 1) } }

OccMinimum(s) ==
    { <<q[1], NumAt(s, q[2], q[3])>> :
        q \in { r \in (1..Len(s)) \X (1..Len(s)) \X (1..2) :
                  /\ s[r[1]] = "minimum of"
                  /\ r[2] >= r[1] + 2
                  /\ AllWs(s, r[1] + 1, r[2] - 1)
                  /\ DigitsAt(s, r[2], r[3])
                  /\ YearsAfter(s, r[2] + r[3]) } }

OccPlain(s) ==
    { <<q[1], NumAt(s, q[1], q[2])>> :
        q \in { r \in (1..Len(s)) \X (1..2) :
                  DigitsAt(s, r[1], r[2]) /\ YearsAfter(s, r[1] + r[2]) } }

Leftmost(S) == CHOOSE o \in S : \A o2 \in S : o[1] <= o2[1]

FirstRuleResult(s) ==
    IF OccRange(s) # {} THEN <<Leftmost(OccRange(s))[2], Leftmost(OccRange(s))[3]>>
    ELSE IF OccPlus(s) # {} THEN <<Leftmost(OccPlus(s))[2], NoneY>>
    ELSE IF OccMinimum(s) # {} THEN <<Leftmost(OccMinimum(s))[2], NoneY>>
    ELSE IF OccPlain(s) # {}
         THEN <<Leftmost(OccPlain(s))[2], Leftmost(OccPlain(s))[2]>>
    ELSE <<NoneY, NoneY>>

----------------------------------------------------------------------------
(* Configuration and the remaining predicates of the filter *)

KEYWORDS ==
    << <<"DevOps", " ", "Engineer">>,
       <<"Cloud", " ", "Engineer">>,
       <<"Site", " ", "Reliability", " ", "Engineer">>,
       <<"Platform", " ", "Engineer">>,
       <<"Infrastructure", " ", "Engineer">>,
       <<"AWS", " ", "Engineer">>,
       <<"Azure", " ", "DevOps", " ", "Engineer">>,
       <<"Kubernetes", " ", "Engineer">> >>

location_matches(location_text) ==
    IF location_text = NoneStr \/ location_text = <<>> THEN TRUE
    ELSE LET t == lower(location_text)
         IN \E key \in { <<"remote">>, <<"india">>, <<"pan", " ", "india">>,
                         <<"india", " ", "remote">> } : Contains(t, key)

text_contains_keywords(txt) ==
    LET t == lower(txt)
    IN IF \E k \in 1..Len(KEYWORDS) : Contains(t, lower(KEYWORDS[k]))
       THEN TRUE
       ELSE \E word \in { <<"devops">>, <<"cloud">>, <<"sre">>,
                          <<"site", " ", "reliability">> } : Contains(t, word)

\* the four values filter_jobs joins for one job
JoinedFields(j) == <<j.title, j.company, j.location, j.snippet>>

\* " ".join(...) raises TypeError when an item is None
JoinRaises(j) == \E k \in 1..4 : JoinedFields(j)[k] = NoneStr

\* one iteration of filter_jobs' loop on a job whose join does not raise
KeepsJob(j) ==
    LET combined == normalize_text(join(<<" ">>, JoinedFields(j)))
        yrs == parse_experience_text(combined)
    IN IF ~text_contains_keywords(combined) THEN FALSE
       ELSE IF ~experience_matches(yrs[1], yrs[2]) THEN FALSE
       ELSE IF ~location_matches(j.location) THEN FALSE
       ELSE TRUE

RECURSIVE FilterLoop(_, _)
FilterLoop(js, acc) ==
    IF js = <<>> THEN [raised |-> FALSE, value |-> acc]
    ELSE IF JoinRaises(Head(js)) THEN [raised |-> TRUE, value |-> <<>>]
    ELSE FilterLoop(Tail(js), IF KeepsJob(Head(js)) THEN Append(acc, Head(js)) ELSE acc)

filter_jobs(js) == FilterLoop(js, <<>>)

----------------------------------------------------------------------------
(* filter_jobs on every short list of job records *)

Job(t, c, l, k, src, sn) ==
    [title |-> t, company |-> c, location |-> l, link |-> k, source |-> src,
     snippet |-> sn]

FilterRecords ==
    { Job(<<"DevOps", " ", "Engineer">>, <<"acme">>, <<"Remote">>,
          <<"https://in.indeed.com", "/jobs/", "1">>, <<"Indeed">>,
          <<"3", "-", "5", " ", "years">>),
      Job(<<"Platform", "\n", " ", "Engineer">>, <<>>, <<>>,
          <<"https://in.indeed.com", "/jobs/", "2">>, <<"Indeed">>,
          <<"7", "+", " ", "years">>),
      Job(<<"graphic", " ", "designer">>, <<"acme">>, <<"Remote", " ", "India">>,
          <<"https://wellfound.com", "/jobs/", "1">>, <<"Wellfound">>, <<>>),
      Job(<<"SRE">>, <<"acme">>, <<"san", " ", "francisco">>,
          <<"https://wellfound.com", "/jobs/", "2">>, <<"Wellfound">>,
          <<"2", " ", "years">>),
      Job(<<"Cloud", " ", "Engineer">>, <<"acme">>, <<>>,
          <<>>, <<"Indeed">>, <<"minimum of", " ", "4", " ", "years">>),
      Job(<<"Cloud", " ", "Engineer">>, NoneStr, <<"Remote">>,
          <<"https://wellfound.com", "/jobs/", "3">>, <<"Wellfound">>,
          <<"Cloud", " ", "Engineer">>) }

FilterInputs == UNION {[1..n -> FilterRecords] : n \in 0..MaxJobs}

InitFilter ==
    /\ pc = "call"
    /\ error = "none"
    /\ jobsIn \in FilterInputs
    /\ filtered = <<>>
    /\ text = <<>>
    /\ parsed = <<NoneY, NoneY>>
    /\ min_y = NoneY
    /\ max_y = NoneY
    /\ expResult = FALSE
    /\ RunIdle

CallFilterJobs ==
    /\ pc = "call"
    /\ LET r == filter_jobs(jobsIn)
       IN IF r.raised
          THEN /\ error' = "TypeError"
               /\ pc' = "raised"
               /\ UNCHANGED filtered
          ELSE /\ filtered' = r.value
               /\ pc' = "done"
               /\ UNCHANGED error
    /\ UNCHANGED <<text, parsed, min_y, max_y, expResult, jobsIn, runVars>>

NextFilter == CallFilterJobs

SpecFilter == InitFilter /\ [][NextFilter]_vars

\* The three predicates as the filter is described: each on the
\* whitespace-normalised concatenation of title, company, location and
\* snippet, an absent field counting as empty.
FieldText(x) == IF x = NoneStr THEN <<>> ELSE x

CombinedText(j) ==
    normalize_text(join(<<" ">>, <<FieldText(j.title), FieldText(j.company),
                                  FieldText(j.location), FieldText(j.snippet)>>))

PassesAll(j) ==
    /\ text_contains_keywords(CombinedText(j))
    /\ LET yrs == parse_experience_text(CombinedText(j))
       IN experience_matches(yrs[1], yrs[2])
    /\ location_matches(j.location)

\* C1: for every input list, filter_jobs returns exactly the sub-sequence of
\* the records that pass keyword relevance, experience match and location
\* relevance, in the original order, nothing added, duplicated or altered.
C1_FilterExact ==
    /\ pc # "raised"
    /\ pc = "done" => filtered = SelectSeq(jobsIn, PassesAll)

----------------------------------------------------------------------------
(* Source fetchers.  A page is the list of anchors the fetcher's selector  *)
(* matches, in document order; an anchor has its href attribute (NoneStr   *)
(* when absent), its text and the text of its parent element.              *)

Anchor(h, t, p) == [href |-> h, text |-> t, parent |-> p]

\* soup.select("a[data-jk]")[:25]
IndeedAnchors(pg) == SubSeq(pg, 1, IF Len(pg) < AnchorCap THEN Len(pg) ELSE AnchorCap)

\* soup.select('a[href*="/jobs/"]')
WellfoundAnchors(pg) == pg

\* the record scrape_indeed appends for one anchor
IndeedRecord(a) ==
    LET href == IF a.href = NoneStr THEN <<>> ELSE a.href
        link == IF StartsWithSlash(href) THEN <<"https://in.indeed.com">> \o href
                ELSE href
        title == normalize_text(a.text)
        snippet == normalize_text(a.parent)
    IN Job(title, NoneStr, snippet, link, <<"Indeed">>, snippet)

WellfoundLink(href) ==
    IF StartsWithSlash(href) THEN <<"https://wellfound.com">> \o href ELSE href

\* the record scrape_wellfound appends for one anchor
WellfoundRecord(a) ==
    LET title == normalize_text(a.text)
    IN Job(title, NoneStr, <<"Remote">>, WellfoundLink(a.href), <<"Wellfound">>, title)

RECURSIVE IndeedLoop(_, _)
IndeedLoop(as, acc) ==
    IF as = <<>> THEN acc
    ELSE IndeedLoop(Tail(as), Append(acc, IndeedRecord(Head(as))))

RECURSIVE WellfoundLoop(_, _, _)
WellfoundLoop(as, seen, acc) ==
    IF as = <<>> THEN acc
    ELSE LET a == Head(as)
         IN IF a.href = NoneStr \/ a.href = <<>>
            THEN WellfoundLoop(Tail(as), seen, acc)
            ELSE IF WellfoundLink(a.href) \in seen
            THEN WellfoundLoop(Tail(as), seen, acc)
            ELSE WellfoundLoop(Tail(as), seen \cup {WellfoundLink(a.href)},
                               Append(acc, WellfoundRecord(a)))

\* anchors whose iteration completes when the step failedAt raises:
\* step 0 is the parse (BeautifulSoup / select), step k the k-th iteration
Completed(as, f) ==
    IF f = NoFailure THEN as
    ELSE IF f = 0 THEN <<>>
    ELSE SubSeq(as, 1, f - 1)

\* `results` of scrape_indeed when its function returns
scrape_indeed(pg, f) == IndeedLoop(Completed(IndeedAnchors(pg), f), <<>>)

\* `results` of scrape_wellfound when its function returns
scrape_wellfound(pg, f) == WellfoundLoop(Completed(WellfoundAnchors(pg), f), {}, <<>>)

Scrape(fn, pg, f) ==
    IF fn = "indeed" THEN scrape_indeed(pg, f) ELSE scrape_wellfound(pg, f)

\* number of loop iterations of a call on a page
Iterations(fn, pg) ==
    IF fn = "indeed" THEN Len(IndeedAnchors(pg)) ELSE Len(WellfoundAnchors(pg))

----------------------------------------------------------------------------
(* Aggregator, formatter *)

\* job.get("link") or job.get("title")
DedupKey(job) ==
    IF job.link # NoneStr /\ job.link # <<>> THEN job.link ELSE job.title

Truthy(x) == x # NoneStr /\ x # <<>>

\* the dict `unique`, as the sequence of its items in insertion order
RECURSIVE DedupLoop(_, _)
DedupLoop(js, uniq) ==
    IF js = <<>> THEN uniq
    ELSE LET key == DedupKey(Head(js))
         IN IF Truthy(key) /\ \A k \in 1..Len(uniq) : uniq[k].key # key
            THEN DedupLoop(Tail(js), Append(uniq, [key |-> key, job |-> Head(js)]))
            ELSE DedupLoop(Tail(js), uniq)

\* an assignment unique[key] = job made for every job
RECURSIVE DedupLoopLastWins(_, _)
DedupLoopLastWins(js, uniq) ==
    IF js = <<>> THEN uniq
    ELSE LET key == DedupKey(Head(js))
         IN IF ~Truthy(key) THEN DedupLoopLastWins(Tail(js), uniq)
            ELSE IF \A k \in 1..Len(uniq) : uniq[k].key # key
            THEN DedupLoopLastWins(Tail(js), Append(uniq, [key |-> key, job |-> Head(js)]))
            ELSE DedupLoopLastWins(Tail(js),
                    [k \in 1..Len(uniq) |->
                        IF uniq[k].key = key THEN [key |-> key, job |-> Head(js)]
                        ELSE uniq[k]])

DeduplicateLastWins(js) ==
    LET u == DedupLoopLastWins(js, <<>>) IN [k \in 1..Len(u) |-> u[k].job]

\* lines 203-209 of collect_jobs: list(unique.values())
Deduplicate(js) ==
    LET u == DedupLoop(js, <<>>) IN [k \in 1..Len(u) |-> u[k].job]

\* html.escape on one token
EscapeTok(t) ==
    CASE t = "&" -> "&amp;"
      [] t = "<" -> "&lt;"
      [] t = ">" -> "&gt;"
      [] t = "\"" -> "&quot;"
      [] t = "'" -> "&#x27;"
      [] OTHER -> t

escape(s) == [i \in 1..Len(s) |-> EscapeTok(s[i])]

NoJobsBody == [kind |-> "nojobs", rows |-> <<>>]

build_email_html(js) ==
    IF js = <<>> THEN NoJobsBody
    ELSE [kind |-> "table",
          rows |-> [i \in 1..Len(js) |->
                      [index |-> i,
                       href |-> js[i].link,
                       title |-> escape(js[i].title),
                       company |-> escape(IF Truthy(js[i].company)
                                          THEN js[i].company ELSE js[i].source),
                       location |-> escape(IF Truthy(js[i].location)
                                           THEN js[i].location ELSE <<"-">>)]]]

----------------------------------------------------------------------------
(* The run: main() = collect_jobs, filter_jobs, build_email_html, send_email *)

RunAnchorsIndeed ==
    { Anchor(<<"/jobs/", "1">>, <<"DevOps", " ", "Engineer">>,
             <<"DevOps", " ", "Engineer", "\n", "Remote">>),
      Anchor(<<"https://wellfound.com", "/jobs/", "1">>, <<"SRE">>,
             <<"SRE", " ", "India">>),
      Anchor(NoneStr, <<"Platform", "\n", "Engineer">>,
             <<"Platform", "\n", "Engineer">>),
      Anchor(<<>>, <<>>, <<>>) }

\* the Wellfound selector only matches anchors whose href contains "/jobs/"
RunAnchorsWellfound ==
    { a \in RunAnchorsIndeed : a.href # NoneStr /\ Contains(a.href, <<"/jobs/">>) }

RunPagesIndeed == UNION {[1..n -> RunAnchorsIndeed] : n \in 0..MaxAnchors}

RunPagesWellfound == UNION {[1..n -> RunAnchorsWellfound] : n \in 0..MaxAnchors}

RunPages(fn) == IF fn = "indeed" THEN RunPagesIndeed ELSE RunPagesWellfound

\* pages of n anchors with pairwise distinct hrefs, or all with the same href;
\* every one of these anchors is matched by both selectors
BigPageSet ==
    { [i \in 1..n |->
         Anchor(<<"/jobs/", IF distinct THEN ToString(i) ELSE "1">>,
                <<"DevOps", " ", "Engineer">>,
                <<"DevOps", " ", "Engineer", " ", "Remote">>)] :
      n \in 0..MaxBigPage, distinct \in BOOLEAN }

InitRun ==
    /\ pc = "get"
    /\ error = "none"
    /\ PureIdle
    /\ userSet \in BOOLEAN
    /\ passSet \in BOOLEAN
    /\ kwIdx = 1
    /\ fetcher = "indeed"
    /\ failedAt = NoFailure
    /\ results = <<>>
    /\ fetchErr = FALSE
    /\ jobs = <<>>
    /\ unique = <<>>
    /\ matches = <<>>
    /\ body = [kind |-> "unset", rows |-> <<>>]
    /\ httpGets = 0
    /\ lastGet = "none"
    /\ slept = FALSE
    /\ smtpConnections = 0
    /\ attempts = 0
    /\ emailsSent = 0

\* results = []; r = requests.get(...) either returns a response or raises,
\* and a raise goes to the except clause of the fetcher
FetchGet ==
    /\ pc = "get"
    /\ httpGets' = httpGets + 1
    /\ slept' = FALSE
    /\ results' = <<>>
    /\ failedAt' = NoFailure
    /\ \E ok \in BOOLEAN :
          IF ok
          THEN /\ lastGet' = "ok"
               /\ fetchErr' = FALSE
               /\ pc' = "sleep"
          ELSE /\ lastGet' = "raised"
               /\ fetchErr' = TRUE
               /\ pc' = "ret"
    /\ UNCHANGED <<error, pureVars, userSet, passSet, kwIdx, fetcher, jobs,
                   unique, matches, body, smtpConnections, attempts, emailsSent>>

\* time.sleep(SLEEP_BETWEEN_REQUESTS), the statement after requests.get
FetchSleep ==
    /\ pc = "sleep"
    /\ slept' = TRUE
    /\ pc' = "parse"
    /\ UNCHANGED <<error, pureVars, userSet, passSet, kwIdx, fetcher,
                   failedAt, results, fetchErr, jobs, unique, matches, body,
                   httpGets, lastGet, smtpConnections, attempts, emailsSent>>

\* an exception in the try block that leaves the fetcher and ends the run
FetchParsePropagates(pages) ==
    /\ pc = "parse"
    /\ \E pg \in pages :
          \E f \in {NoFailure} \cup (0..Iterations(fetcher, pg)) :
              /\ failedAt' = f
              /\ results' = Scrape(fetcher, pg, f)
              /\ fetchErr' = FALSE
              /\ IF f = NoFailure
                 THEN pc' = "ret" /\ UNCHANGED error
                 ELSE pc' = "aborted" /\ error' = "Exception"
    /\ UNCHANGED <<pureVars, userSet, passSet, kwIdx, fetcher, jobs, unique,
                   matches, body, httpGets, lastGet, slept, smtpConnections,
                   attempts, emailsSent>>

\* the rest of the try block: parse the response, select the anchors, run the
\* loop; any step may raise, which ends the block with `results` as it is
FetchParse(pages) ==
    /\ pc = "parse"
    /\ \E pg \in pages :
          \E f \in {NoFailure} \cup (0..Iterations(fetcher, pg)) :
              /\ failedAt' = f
              /\ results' = Scrape(fetcher, pg, f)
              /\ fetchErr' = (f # NoFailure)
    /\ pc' = "ret"
    /\ UNCHANGED <<error, pureVars, userSet, passSet, kwIdx, fetcher, jobs,
                   unique, matches, body, httpGets, lastGet, slept,
                   smtpConnections, attempts, emailsSent>>

FetchParseRun == FetchParse(RunPages(fetcher))

FetchParseBig == FetchParse(BigPageSet)

\* return results (the locals of the call are gone); jobs.extend(...); next
\* fetcher call of collect_jobs' loop, and after the last one the
\* deduplication and the return of collect_jobs
FetchReturn ==
    /\ pc = "ret"
    /\ jobs' = jobs \o results
    /\ results' = <<>>
    /\ failedAt' = NoFailure
    /\ fetchErr' = FALSE
    /\ IF fetcher = "indeed"
       THEN /\ fetcher' = "wellfound"
            /\ pc' = "get"
            /\ UNCHANGED <<kwIdx, unique>>
       ELSE IF kwIdx < NumKeywords
       THEN /\ fetcher' = "indeed"
            /\ kwIdx' = kwIdx + 1
            /\ pc' = "get"
            /\ UNCHANGED unique
       ELSE /\ unique' = Deduplicate(jobs')
            /\ pc' = "filter"
            /\ UNCHANGED <<kwIdx, fetcher>>
    /\ UNCHANGED <<error, pureVars, userSet, passSet, matches, body, httpGets,
                   lastGet, slept, smtpConnections, attempts, emailsSent>>

\* matches = filter_jobs(jobs)
FilterJobs ==
    /\ pc = "filter"
    /\ LET r == filter_jobs(unique)
       IN IF r.raised
          THEN /\ error' = "TypeError"
               /\ pc' = "aborted"
               /\ UNCHANGED matches
          ELSE /\ matches' = r.value
               /\ pc' = "format"
               /\ UNCHANGED error
    /\ UNCHANGED <<pureVars, userSet, passSet, kwIdx, fetcher, failedAt,
                   results, fetchErr, jobs, unique, body, httpGets, lastGet,
                   slept, smtpConnections, attempts, emailsSent>>

\* html_body = build_email_html(matches)
BuildEmail ==
    /\ pc = "format"
    /\ body' = build_email_html(matches)
    /\ pc' = "send"
    /\ UNCHANGED <<error, pureVars, userSet, passSet, kwIdx, fetcher,
                   failedAt, results, fetchErr, jobs, unique, matches, httpGets,
                   lastGet, slept, smtpConnections, attempts, emailsSent>>

\* a send_email that goes on to the SMTP server whatever the credentials
SendEmailNoCheck ==
    /\ pc = "send"
    /\ pc' = "smtp"
    /\ UNCHANGED <<error, pureVars, runVars>>

\* send_email, lines 261-262: the credentials check
SendEmailCheck ==
    /\ pc = "send"
    /\ IF ~userSet \/ ~passSet
       THEN error' = "RuntimeError" /\ pc' = "aborted"
       ELSE pc' = "smtp" /\ UNCHANGED error
    /\ UNCHANGED <<pureVars, runVars>>

\* a submission that is started again after it raised
SmtpSubmitRetry ==
    /\ pc = "smtp"
    /\ attempts < 3
    /\ attempts' = attempts + 1
    /\ \E outcome \in {"ok", "connect", "starttls", "login", "sendmail"} :
          /\ smtpConnections' = smtpConnections + (IF outcome = "connect" THEN 0 ELSE 1)
          /\ IF outcome = "ok"
             THEN emailsSent' = emailsSent + 1 /\ pc' = "done"
             ELSE UNCHANGED <<emailsSent, pc>>
    /\ UNCHANGED <<error, pureVars, userSet, passSet, kwIdx, fetcher,
                   failedAt, results, fetchErr, jobs, unique, matches, body,
                   httpGets, lastGet, slept>>

\* send_email, lines 264-274: connect, starttls, login, sendmail; whichever
\* raises, the exception leaves send_email and main
SmtpSubmit ==
    /\ pc = "smtp"
    /\ attempts' = attempts + 1
    /\ \E outcome \in {"ok", "connect", "starttls", "login", "sendmail"} :
          /\ smtpConnections' = smtpConnections + (IF outcome = "connect" THEN 0 ELSE 1)
          /\ IF outcome = "ok"
             THEN emailsSent' = emailsSent + 1 /\ pc' = "done" /\ UNCHANGED error
             ELSE error' = "SMTPError" /\ pc' = "aborted" /\ UNCHANGED emailsSent
    /\ UNCHANGED <<pureVars, userSet, passSet, kwIdx, fetcher, failedAt,
                   results, fetchErr, jobs, unique, matches, body, httpGets,
                   lastGet, slept>>

Next ==
    \/ FetchGet
    \/ FetchSleep
    \/ FetchParseRun
    \/ FetchReturn
    \/ FilterJobs
    \/ BuildEmail
    \/ SendEmailCheck
    \/ SmtpSubmit

Spec == InitRun /\ [][Next]_vars

----------------------------------------------------------------------------
(* One fetcher call on pages of up to MaxBigPage matched anchors *)

InitFetch ==
    /\ pc = "get"
    /\ error = "none"
    /\ PureIdle
    /\ fetcher \in {"indeed", "wellfound"}
    /\ userSet = TRUE
    /\ passSet = TRUE
    /\ kwIdx = 1
    /\ failedAt = NoFailure
    /\ results = <<>>
    /\ fetchErr = FALSE
    /\ jobs = <<>>
    /\ unique = <<>>
    /\ matches = <<>>
    /\ body = [kind |-> "unset", rows |-> <<>>]
    /\ httpGets = 0
    /\ lastGet = "none"
    /\ slept = FALSE
    /\ smtpConnections = 0
    /\ attempts = 0
    /\ emailsSent = 0

NextFetch ==
    \/ FetchGet
    \/ FetchSleep
    \/ FetchParseBig

SpecFetch == InitFetch /\ [][NextFetch]_vars

----------------------------------------------------------------------------
(* Properties of the run *)

\* collect_jobs has returned
Collected == pc \in {"filter", "format", "send", "smtp", "done", "aborted"}

CredsMissing == ~userSet \/ ~passSet

FetchCalls == 2 * NumKeywords

FirstIndex(js, key) ==
    CHOOSE m \in 1..Len(js) :
        DedupKey(js[m]) = key /\ \A m2 \in 1..(m - 1) : DedupKey(js[m2]) # key

\* C2: collect_jobs returns a list in which every record has a non-empty
\* dedup key (link, or title when link is empty), no two records share a key,
\* each retained record is the first one carrying its key in fetch order, and
\* the order is the first-seen order; every key fetched is retained.
C2_DedupFirstSeen ==
    Collected =>
        /\ \A i \in 1..Len(unique) : Truthy(DedupKey(unique[i]))
        /\ \A i, k \in 1..Len(unique) :
              i # k => DedupKey(unique[i]) # DedupKey(unique[k])
        /\ \A i \in 1..Len(unique) :
              \E m \in 1..Len(jobs) :
                  /\ jobs[m] = unique[i]
                  /\ \A m2 \in 1..(m - 1) : DedupKey(jobs[m2]) # DedupKey(unique[i])
        /\ \A i, k \in 1..Len(unique) :
              i < k => FirstIndex(jobs, DedupKey(unique[i]))
                         < FirstIndex(jobs, DedupKey(unique[k]))
        /\ \A m \in 1..Len(jobs) :
              Truthy(DedupKey(jobs[m])) =>
                  \E i \in 1..Len(unique) : DedupKey(unique[i]) = DedupKey(jobs[m])

\* two fetched records share a key and differ in title; the first is retained
C2_Witness ==
    /\ Collected
    /\ \E a, b \in 1..Len(jobs) :
          /\ a < b
          /\ Truthy(DedupKey(jobs[a]))
          /\ DedupKey(jobs[a]) = DedupKey(jobs[b])
          /\ jobs[a].title # jobs[b].title
          /\ \A m \in 1..(a - 1) : DedupKey(jobs[m]) # DedupKey(jobs[a])
          /\ \E i \in 1..Len(unique) : unique[i] = jobs[a]

\* C3 as stated: with GMAIL_USER or GMAIL_APP_PASSWORD unset, the
\* missing-credentials error is raised before any network call, no HTTP GET
\* and no SMTP connection preceding it.
C3_RaisedBeforeAnyNetworkCall ==
    (CredsMissing /\ error = "RuntimeError") =>
        (httpGets = 0 /\ smtpConnections = 0)

\* C3: with GMAIL_USER or GMAIL_APP_PASSWORD unset, no mail submission is
\* started and no SMTP connection is opened, the run never completes, and the
\* missing-credentials error aborts the run after collect_jobs has issued all
\* of its HTTP GETs.
C3_RaisedBeforeSmtpOnly ==
    CredsMissing =>
        /\ attempts = 0
        /\ smtpConnections = 0
        /\ emailsSent = 0
        /\ pc # "done"
        /\ error = "RuntimeError" => (pc = "aborted" /\ httpGets = FetchCalls)

\* the credentials are missing and send_email has raised, after the GETs
C3_Witness ==
    CredsMissing /\ error = "RuntimeError" /\ pc = "aborted" /\ httpGets > 0

C7_SingleSubmission ==
    /\ attempts <= 1
    /\ emailsSent <= 1
    /\ pc = "done" =>
          /\ attempts = 1
          /\ emailsSent = 1
          /\ matches = <<>> => body = NoJobsBody
    /\ error = "SMTPError" => (pc = "aborted" /\ attempts = 1 /\ emailsSent = 0)

\* nothing was scraped and the run has completed with its one email sent
C7_Witness ==
    pc = "done" /\ jobs = <<>> /\ emailsSent = 1 /\ body = NoJobsBody

\* C8: after every HTTP GET, succeeded or failed, the delay is slept before
\* the next fetch begins: no fetch begins while the previous GET has not been
\* followed by a sleep.
C8_SleepBeforeNextFetch ==
    (pc = "get" /\ httpGets > 0) => slept

\* C10: filter_jobs raises on no record the fetchers produce, so a run with
\* the credentials set always gets to send_email.
C10_FilterNeverRaises ==
    /\ error # "TypeError"
    /\ (userSet /\ passSet /\ pc = "aborted") => error = "SMTPError"

\* C9: one fetcher call returns at most 25 records, whatever the page.
C9_AtMost25Records ==
    pc = "ret" => Len(results) <= AnchorCap

====
